---------------------------- MODULE Spec2Model ----------------------------
(***************************************************************************)
(* Model of the crop-segmentation evaluation pipeline:                     *)
(*   02_agregar_npz_em_shp.py  mask archives -> polygon catalog            *)
(*   03_filtrar_mascaras.py    size band + MapBiomas overlap filter        *)
(*   04_analise_heterogeniedade.py  NDVI statistics of each polygon       *)
(*   05_analise_cobertura.py   recall / precision against MapBiomas        *)
(*                                                                         *)
(* Geometry is modelled on the pixel grid: a polygon is the set of unit    *)
(* cells <<col, row>> it covers, expressed in the coordinates of its CRS.  *)
(* Two CRSs are modelled; the x axis of "wgs84" has half the unit of the   *)
(* x axis of "utm", so reprojecting changes coordinates and planar area.   *)
(* Floating point ratios are kept exact as fractions <<num, den>>.         *)
(***************************************************************************)
EXTENDS Integers, Sequences, FiniteSets, TLC

VARIABLES
    pc,         \* control position of the stage being run
    raster,     \* the MapBiomas reference raster
    geometry,   \* get_agriculture_coverage: the geometry argument
    ioError,    \* get_agriculture_coverage: rasterio raises while clipping
    cobertura,  \* get_agriculture_coverage: the value returned
    inShp,      \* filtrar_mascaras: the input shapefile
    outShp,     \* filtrar_mascaras: the output shapefile on disk (NONE: no file)
    crit,       \* filtrar_mascaras: area_min_ha, area_max_ha, agri_pct_min
    ioFail,     \* mask_ids of the polygons whose clipping raises a raster I/O error
    gdf_final,  \* filtrar_mascaras: the polygons that survived the last run
    prev,       \* the run before the last one: its criteria, input and survivors
    zipShp,     \* the .zip beside the output shapefile (NONE: no archive)
    aoi,            \* 05 main: the area-of-interest file read from AOI_SHP
    area_total_ha,  \* 05 main: calcular_area_agricola_total's result
    metricas,       \* 05 main: calcular_metricas_segmentacao's result
    stdout,         \* 05 main: what was printed
    exit_status,    \* main: the process exit status (NONE while running)
    stats_list,     \* 04 main: calcular_ndvi_stats's result for each polygon
    npzDir,             \* MASKS_DIR: the *.npz archives
    patchesDir,         \* PATCHES_DIR: the *.tif tiles
    pending,            \* archives of npz_files the loop has not reached yet
    todas_geometrias,   \* converter_npz_para_shp: the features collected
    crs_final,          \* converter_npz_para_shp: the CRS given to the catalog
    log                 \* history: the archives in loop order, with their outcome

\* an absent value (Python None, a file that does not exist)
NONE == <<>>

covVars == <<geometry, ioError, cobertura>>
filtVars == <<inShp, outShp, crit, ioFail, gdf_final, prev, zipShp>>
evalVars == <<aoi, area_total_ha, metricas, stdout, exit_status, stats_list>>
aggVars == <<npzDir, patchesDir, pending, todas_geometrias, crs_final, log>>
vars == <<pc, raster, covVars, filtVars, evalVars, aggVars>>

\* crs_final = None
NoCrs == "None"

AggUnused ==
    /\ npzDir = {} /\ patchesDir = {} /\ pending = {}
    /\ todas_geometrias = <<>> /\ crs_final = NoCrs /\ log = <<>>

EvalUnused ==
    /\ AggUnused
    /\ aoi = NONE /\ area_total_ha = NONE
    /\ metricas = NONE /\ stdout = <<>> /\ exit_status = NONE
    /\ stats_list = NONE

-----------------------------------------------------------------------------
(* Bounds of the model *)

RasterW == 2    \* columns of the reference raster
RasterH == 2    \* rows of the reference raster
MaxCells == 3   \* largest polygon, in cells
NPoly == 2      \* polygons of the catalog given to the filter
TileW == 3      \* columns of a tile whose mask is traced
TileH == 3      \* rows of a tile whose mask is traced
MaxMasks == 2   \* masks of one archive
MaxValid == 11  \* most pixels of one reflectance in a clipped window
BlockTile == 10 \* columns and rows of a tile whose mask is one solid block

-----------------------------------------------------------------------------
(* Exact fractions: <<n, d>> with d > 0 stands for n / d *)

Frac(n, d) == <<n, d>>
FracLe(a, b) == a[1] * b[2] <= b[1] * a[2]
FracEq(a, b) == a[1] * b[2] = b[1] * a[2]
FracOfInt(n) == <<n, 1>>
IsPercentage(x) == FracLe(Frac(0, 1), x) /\ FracLe(x, Frac(100, 1))

RECURSIVE Gcd(_, _)
Gcd(a, b) == IF b = 0 THEN a ELSE Gcd(b, a % b)

\* n / d in lowest terms (d # 0), the sign carried by the numerator
Reduced(n, d) ==
    LET an == IF n < 0 THEN -n ELSE n
        ad == IF d < 0 THEN -d ELSE d
        g == Gcd(an, ad)
        sgn == IF (n < 0) = (d < 0) THEN 1 ELSE -1
    IN  <<sgn * (an \div g), ad \div g>>

FracMul(a, b) ==
    LET x == Reduced(a[1], b[2])
        y == Reduced(b[1], a[2])
    IN  Reduced(x[1] * y[1], x[2] * y[2])
FracDiv(a, b) == FracMul(a, <<b[2], b[1]>>)
FracAbs(a) == <<IF a[1] < 0 THEN -a[1] ELSE a[1], a[2]>>
FracAdd(a, b) ==
    IF b[1] = 0 THEN a
    ELSE IF a[1] = 0 THEN b
    ELSE Reduced(a[1] * b[2] + b[1] * a[2], a[2] * b[2])
FracSub(a, b) ==
    IF a = b THEN Frac(0, 1)
    ELSE Reduced(a[1] * b[2] - b[1] * a[2], a[2] * b[2])

-----------------------------------------------------------------------------
(* Grid geometry *)

Cells(w, h) == (1..w) \X (1..h)

Adjacent(p, q) ==
    \/ p[1] = q[1] /\ (p[2] = q[2] + 1 \/ q[2] = p[2] + 1)
    \/ p[2] = q[2] /\ (p[1] = q[1] + 1 \/ q[1] = p[1] + 1)

RECURSIVE Reach(_, _)
Reach(seen, S) ==
    LET more == {q \in S \ seen : \E p \in seen : Adjacent(p, q)}
    IN  IF more = {} THEN seen ELSE Reach(seen \cup more, S)

Connected(S) == S # {} /\ Reach({CHOOSE p \in S : TRUE}, S) = S

\* every polygon footprint of at most n cells on a w x h grid
Shapes(w, h, n) ==
    {S \in SUBSET Cells(w, h) : Cardinality(S) <= n /\ Connected(S)}

MinOf(S) == CHOOSE x \in S : \A y \in S : x <= y
MaxOf(S) == CHOOSE x \in S : \A y \in S : x >= y

-----------------------------------------------------------------------------
(* The reference raster and rasterio.mask.mask *)

\* mutant: the code 0 taken for an agricultural class
ClassesWithZero == {0, 18, 19, 39, 20, 40, 62, 41, 36, 46, 47, 35, 48}

CLASSES_MAPBIOMAS_AGRICULTURA == {18, 19, 39, 20, 40, 62, 41, 36, 46, 47, 35, 48}

\* class codes a pixel of the modelled rasters may hold:
\* 0, a non-agricultural class (3, forest) and an agricultural class (18)
Codes == {0, 3, 18}
\* nodata declared by the raster file: {} when none is declared, else {value}
NodataValues == {{}, {0}, {255}}

CRS == {"utm", "wgs84"}

Rasters(w, h, codes) ==
    [crs : CRS, nodata : NodataValues, w : {w}, h : {h},
     px : [Cells(w, h) -> codes]]

RasterCells(r) == Cells(r.w, r.h)

\* pixels of the file that rasterio reads as masked (equal to nodata)
IsNodata(r, p) == r.px[p] \in r.nodata

\* crop=True: the bounding box of the shape, cut to the raster's extent
Window(r, g) ==
    LET cols == {p[1] : p \in g}
        rows == {p[2] : p \in g}
    IN  {p \in RasterCells(r) :
            /\ MinOf(cols) <= p[1] /\ p[1] <= MaxOf(cols)
            /\ MinOf(rows) <= p[2] /\ p[2] <= MaxOf(rows)}

\* the shape and the raster's extent have no cell in common: mask() raises
\* ValueError("Input shapes do not overlap raster.")
NoOverlap(r, g) == Window(r, g) = {}

\* filled=True: masked pixels take the nodata value, or 0 when none is declared
FillValue(r) == IF r.nodata = {} THEN 0 ELSE CHOOSE v \in r.nodata : TRUE

\* out_image of mask(src, [geometry], crop=True, filled=True)
OutImage(r, g) ==
    [p \in Window(r, g) |->
        IF p \notin g \/ IsNodata(r, p) THEN FillValue(r) ELSE r.px[p]]

CountNonzero(img) == Cardinality({p \in DOMAIN img : img[p] # 0})

CountIsin(img, classes) == Cardinality({p \in DOMAIN img : img[p] \in classes})

\* mutant: a shape that does not overlap the raster counted as fully covered
GetAgricultureCoverageNoOverlapFull(g, r, fails) ==
    IF fails THEN Frac(0, 1)
    ELSE IF NoOverlap(r, g) THEN Frac(100, 1)
    ELSE LET out_image == OutImage(r, g)
             total_pixels == CountNonzero(out_image)
             agri_pixels == CountIsin(out_image, CLASSES_MAPBIOMAS_AGRICULTURA)
         IN  IF total_pixels = 0
             THEN Frac(0, 1)
             ELSE Frac(agri_pixels * 100, total_pixels)

\* get_agriculture_coverage(geometry, mapbiomas_raster); fails: rasterio raises
GetAgricultureCoverage(g, r, fails) ==
    IF fails \/ NoOverlap(r, g)
    THEN Frac(0, 1)                                  \* except Exception: 0.0
    ELSE LET out_image == OutImage(r, g)
             total_pixels == CountNonzero(out_image)
             agri_pixels == CountIsin(out_image, CLASSES_MAPBIOMAS_AGRICULTURA)
         IN  IF total_pixels = 0
             THEN Frac(0, 1)
             ELSE Frac(agri_pixels * 100, total_pixels)

-----------------------------------------------------------------------------
(* SpecCoverage: get_agriculture_coverage on one geometry *)

\* the rasters clipped: every content over Codes, nodata not declared or
\* declared as 0, as 255 or as the agricultural code 18
CoverageRasters ==
    LET rs == {r \in Rasters(RasterW, RasterH, Codes) : r.crs = "utm"}
    IN  rs \cup {[r EXCEPT !.nodata = {18}] : r \in rs}

InitCoverage ==
    /\ pc = "coverage"
    /\ raster \in CoverageRasters
    /\ geometry \in Shapes(RasterW + 1, RasterH, MaxCells)
    /\ ioError \in BOOLEAN
    /\ cobertura = NONE
    /\ inShp = NONE /\ outShp = NONE /\ crit = NONE /\ ioFail = {}
    /\ gdf_final = NONE /\ prev = NONE /\ zipShp = NONE
    /\ EvalUnused

CallCoverage ==
    /\ pc = "coverage"
    /\ cobertura' = GetAgricultureCoverage(geometry, raster, ioError)
    /\ pc' = "coverage_done"
    /\ UNCHANGED <<raster, geometry, ioError, filtVars, evalVars, aggVars>>

NextCoverage == CallCoverage

SpecCoverage == InitCoverage /\ [][NextCoverage]_vars

-----------------------------------------------------------------------------
(* Claims on get_agriculture_coverage *)

\* the pixels the claim counts: inside the polygon, inside the raster
InFootprint(r, g) == g \cap RasterCells(r)
ValidInFootprint(r, g) == {p \in InFootprint(r, g) : ~IsNodata(r, p)}
TargetInFootprint(r, g) ==
    {p \in ValidInFootprint(r, g) : r.px[p] \in CLASSES_MAPBIOMAS_AGRICULTURA}

\* C2: for every clipped polygon overlap_pct = 100 * N / D, N the in-footprint
\* pixels of the target classes, D all in-footprint non-masked pixels whatever
\* their class code (0 included), no pixel outside the polygon counted
C2_OverlapIsFootprintRatio ==
    (pc = "coverage_done" /\ ~ioError) =>
        LET N == Cardinality(TargetInFootprint(raster, geometry))
            D == Cardinality(ValidInFootprint(raster, geometry))
        IN  FracEq(cobertura, IF D = 0 THEN Frac(0, 1) ELSE Frac(100 * N, D))

\* C20: the value get_agriculture_coverage returns is in [0, 100] for every
\* polygon, raster content and nodata value: the pixels counted as target
\* class never outnumber the pixels counted in the denominator, on the
\* success path, the D = 0 path and the exception path
C20_CoverageIsPercentage ==
    pc = "coverage_done" =>
        /\ IsPercentage(cobertura)
        /\ (~ioError /\ ~NoOverlap(raster, geometry)) =>
              CountIsin(OutImage(raster, geometry), CLASSES_MAPBIOMAS_AGRICULTURA)
                  <= CountNonzero(OutImage(raster, geometry))
        /\ (ioError \/ NoOverlap(raster, geometry)
                \/ CountNonzero(OutImage(raster, geometry)) = 0) =>
              cobertura = Frac(0, 1)

\* the success path gave 100 on a window that holds a pixel of class 0 inside
\* the polygon and a pixel outside the polygon
C20_Witness ==
    /\ pc = "coverage_done"
    /\ ~ioError
    /\ FracEq(cobertura, Frac(100, 1))
    /\ \E p \in Window(raster, geometry) : p \notin geometry
    /\ \E p \in InFootprint(raster, geometry) : raster.px[p] = 0

-----------------------------------------------------------------------------
(* 03_filtrar_mascaras.py: the catalog and the filter *)

\* gdf.to_crs: the footprint in the coordinates of another CRS
\* (one "utm" cell is two "wgs84" cells along x)
ToCrs(g, from, to) ==
    IF from = to THEN g
    ELSE IF to = "wgs84"
         THEN UNION {{<<2 * p[1] - 1, p[2]>>, <<2 * p[1], p[2]>>} : p \in g}
         ELSE {<<(p[1] + 1) \div 2, p[2]>> : p \in g}

\* shapely's geom.area, with the cell as the unit (one cell = 1 ha)
GeomArea(g) == Cardinality(g)

Feature(id, g) ==
    [mask_id |-> id, geometry |-> g, area_ha |-> GeomArea(g), agri_pct |-> NONE]

\* the catalogs written by the aggregation: NPoly polygons in one CRS, area_ha
\* computed from the geometry as stored
Catalogs(w, h) ==
    {[crs |-> c,
      feats |-> [i \in 1..NPoly |-> Feature(i, ToCrs(gs[i], "utm", c))]] :
        c \in CRS, gs \in [1..NPoly -> Shapes(w, h, MaxCells)]}

AreaMins == {1, 2}
AreaMaxs == {2, 3}
PctMins == {0, 50, 100}
Criteria ==
    [area_min_ha : AreaMins, area_max_ha : AreaMaxs, agri_pct_min : PctMins]

\* mutant: the size band with exclusive bounds
AreaBandExclusive(feats, c) ==
    SelectSeq(feats, LAMBDA f :
        f.area_ha > c.area_min_ha /\ f.area_ha < c.area_max_ha)

\* gdf[(gdf['area_ha'] >= area_min_ha) & (gdf['area_ha'] <= area_max_ha)]
AreaBand(feats, c) ==
    SelectSeq(feats, LAMBDA f :
        f.area_ha >= c.area_min_ha /\ f.area_ha <= c.area_max_ha)

\* mutant: area_ha refreshed from the reprojected geometry
WithCoverageNewArea(feats, crs, r, fails) ==
    [i \in DOMAIN feats |->
        LET g == ToCrs(feats[i].geometry, crs, r.crs)
        IN  [feats[i] EXCEPT
                !.geometry = g,
                !.area_ha = GeomArea(g),
                !.agri_pct =
                    GetAgricultureCoverage(g, r, feats[i].mask_id \in fails)]]

\* to_crs(src.crs), then agri_pct = get_agriculture_coverage of each geometry
WithCoverage(feats, crs, r, fails) ==
    [i \in DOMAIN feats |->
        LET g == ToCrs(feats[i].geometry, crs, r.crs)
        IN  [feats[i] EXCEPT
                !.geometry = g,
                !.agri_pct =
                    GetAgricultureCoverage(g, r, feats[i].mask_id \in fails)]]

\* mutant: the overlap comparison inverted
OverlapKeepInverted(feats, c) ==
    SelectSeq(feats, LAMBDA f : FracLe(f.agri_pct, FracOfInt(c.agri_pct_min)))

\* gdf_filtrado[gdf_filtrado['agri_pct'] >= agri_pct_min]
OverlapKeep(feats, c) ==
    SelectSeq(feats, LAMBDA f : FracLe(FracOfInt(c.agri_pct_min), f.agri_pct))

\* the survivors of filtrar_mascaras (an empty size band returns early)
GdfFinal(shp, r, c, fails) ==
    LET gdf_filtrado == AreaBand(shp.feats, c)
    IN  IF gdf_filtrado = <<>>
        THEN <<>>
        ELSE OverlapKeep(WithCoverage(gdf_filtrado, shp.crs, r, fails), c)

\* the output path after the run: written only when a polygon survives
ToFile(final, r, old) ==
    IF final = <<>> THEN old ELSE [crs |-> r.crs, feats |-> final]

\* main, lines 130-141 (zip_files in the aggregation): when the five
\* side-files exist at the output path they are packed into a new .zip, else
\* a warning is printed and the .zip is left as it was. run: the run packing.
ZipFiles(shp, old, run) ==
    IF shp = NONE THEN old ELSE [shp |-> shp, run |-> run]

evalOthers == <<aoi, area_total_ha, metricas, stdout, stats_list>>

Ids(feats) == {feats[i].mask_id : i \in DOMAIN feats}

InitFilter ==
    /\ pc = "filter"
    /\ raster \in Rasters(RasterW, 1, Codes)
    /\ inShp \in Catalogs(RasterW + 1, 1)
    /\ ioFail \in SUBSET (1..NPoly)
    /\ outShp = NONE /\ crit = NONE /\ gdf_final = NONE /\ prev = NONE
    /\ zipShp = NONE
    /\ geometry = NONE /\ ioError = FALSE /\ cobertura = NONE
    /\ EvalUnused

\* main: filtrar_mascaras(input_shp, output_shp, mapbiomas_raster, criteria),
\* then the packaging; main returns, the process ends with status 0
FiltrarMascaras ==
    /\ pc = "filter"
    /\ \E c \in Criteria :
        /\ crit' = c
        /\ gdf_final' = GdfFinal(inShp, raster, c, ioFail)
        /\ outShp' = ToFile(gdf_final', raster, outShp)
    /\ zipShp' = ZipFiles(outShp', zipShp, 1)
    /\ exit_status' = 0
    /\ pc' = "filtered"
    /\ UNCHANGED <<raster, inShp, ioFail, prev, covVars, evalOthers, aggVars>>

\* the filter applied again, with the same criteria, to the output it produced
FiltrarMascarasAgain ==
    /\ pc = "filtered"
    /\ \/ /\ outShp = NONE   \* FileNotFoundError: nothing was written
          /\ pc' = "raised"
          /\ exit_status' = 1
          /\ UNCHANGED <<inShp, outShp, gdf_final, prev, zipShp>>
       \/ /\ outShp # NONE
          /\ prev' = [crit |-> crit, input |-> inShp, final |-> gdf_final]
          /\ inShp' = outShp
          /\ gdf_final' = GdfFinal(outShp, raster, crit, ioFail)
          /\ outShp' = ToFile(gdf_final', raster, outShp)
          /\ zipShp' = ZipFiles(outShp', zipShp, 2)
          /\ exit_status' = 0
          /\ pc' = "refiltered"
    /\ UNCHANGED <<raster, crit, ioFail, covVars, evalOthers, aggVars>>

\* criteria that differ from c in exactly one of the three thresholds
OneChanged(c) ==
    {d \in Criteria :
        Cardinality({k \in {"area_min_ha", "area_max_ha", "agri_pct_min"} :
                        d[k] # c[k]}) = 1}

\* the filter applied to the same input with one threshold changed
FiltrarMascarasOther ==
    /\ pc = "filtered"
    /\ \E c \in OneChanged(crit) :
        /\ crit' = c
        /\ gdf_final' = GdfFinal(inShp, raster, c, ioFail)
        /\ outShp' = ToFile(gdf_final', raster, outShp)
    /\ zipShp' = ZipFiles(outShp', zipShp, 2)
    /\ exit_status' = 0
    /\ prev' = [crit |-> crit, input |-> inShp, final |-> gdf_final]
    /\ pc' = "varied"
    /\ UNCHANGED <<raster, inShp, ioFail, covVars, evalOthers, aggVars>>

NextFilter == FiltrarMascaras \/ FiltrarMascarasAgain \/ FiltrarMascarasOther

SpecFilter == InitFilter /\ [][NextFilter]_vars

-----------------------------------------------------------------------------
(* Claims on filtrar_mascaras *)

FilterRan == pc \in {"filtered", "refiltered", "varied"}

InBand(f, c) == c.area_min_ha <= f.area_ha /\ f.area_ha <= c.area_max_ha

\* the overlap the filter computes for a polygon of the input catalog
OverlapPct(f) ==
    GetAgricultureCoverage(ToCrs(f.geometry, inShp.crs, raster.crs), raster,
                           f.mask_id \in ioFail)

Survivor(id) == CHOOSE f \in {gdf_final[i] : i \in DOMAIN gdf_final} : f.mask_id = id

\* C1: a polygon is in the output of filtrar_mascaras iff
\* area_min <= area <= area_max and its computed overlap_pct >= overlap_min_pct,
\* the three bounds inclusive
C1_KeptIffInBandAndOverlap ==
    FilterRan =>
        \A i \in DOMAIN inShp.feats :
            LET f == inShp.feats[i]
            IN  /\ f.mask_id \in Ids(gdf_final) <=>
                    (InBand(f, crit)
                        /\ FracLe(FracOfInt(crit.agri_pct_min), OverlapPct(f)))
                /\ f.mask_id \in Ids(gdf_final) =>
                    Survivor(f.mask_id).agri_pct = OverlapPct(f)

\* a polygon kept with area = area_min = area_max and overlap_pct = overlap_min_pct > 0,
\* beside a polygon that was dropped
C1_Witness ==
    /\ pc = "filtered"
    /\ Len(gdf_final) = 1
    /\ gdf_final[1].area_ha = crit.area_min_ha
    /\ gdf_final[1].area_ha = crit.area_max_ha
    /\ crit.agri_pct_min > 0
    /\ FracEq(gdf_final[1].agri_pct, FracOfInt(crit.agri_pct_min))

\* C8: filtering the filter's own output again with the same criteria yields
\* the same set of polygons (same ids, same count)
C8_Idempotent ==
    pc = "refiltered" =>
        /\ Ids(gdf_final) = Ids(prev.final)
        /\ Len(gdf_final) = Len(prev.final)

\* the second run had a reprojected catalog to read, from which the first run
\* had dropped a polygon
C8_Witness ==
    /\ pc = "refiltered"
    /\ prev.input.crs # raster.crs
    /\ Len(prev.final) = 1
    /\ Len(gdf_final) = 1

Tighter(d, c) ==
    /\ d.area_min_ha >= c.area_min_ha
    /\ d.area_max_ha <= c.area_max_ha
    /\ d.agri_pct_min >= c.agri_pct_min

\* C9: raising area_min, lowering area_max or raising overlap_min_pct on the
\* same catalog and raster leaves a subset of the survivors
C9_Monotone ==
    (pc = "varied" /\ Tighter(crit, prev.crit)) =>
        /\ Ids(gdf_final) \subseteq Ids(prev.final)
        /\ Len(gdf_final) <= Len(prev.final)

\* a tightened threshold removed one of two survivors
C9_Witness ==
    /\ pc = "varied"
    /\ Tighter(crit, prev.crit)
    /\ Len(prev.final) = 2
    /\ Len(gdf_final) = 1

Clipped(f) == ToCrs(f.geometry, inShp.crs, raster.crs)

\* the polygon has nothing to count: it misses the raster, or no pixel of its
\* clipped window is counted in the denominator
NothingCounted(f) ==
    \/ NoOverlap(raster, Clipped(f))
    \/ CountNonzero(OutImage(raster, Clipped(f))) = 0
    \/ ValidInFootprint(raster, Clipped(f)) = {}

\* C11: a polygon that does not intersect the reference raster, or whose
\* clipped window has no counted pixel, gets overlap_pct = 0 as an ordinary
\* value (the run completes) and is left out of the output whenever
\* overlap_min_pct > 0
C11_NoOverlapIsZero ==
    FilterRan =>
        \A i \in DOMAIN inShp.feats :
            LET f == inShp.feats[i]
            IN  (NothingCounted(f) /\ f.mask_id \notin ioFail) =>
                    /\ OverlapPct(f) = Frac(0, 1)
                    /\ crit.agri_pct_min > 0 => f.mask_id \notin Ids(gdf_final)

\* a polygon inside the size band that misses the raster was left out, while
\* the other polygon of the catalog was kept
C11_Witness ==
    /\ pc = "filtered"
    /\ crit.agri_pct_min > 0
    /\ Len(gdf_final) = 1
    /\ \E i \in DOMAIN inShp.feats :
            /\ InBand(inShp.feats[i], crit)
            /\ inShp.feats[i].mask_id \notin ioFail
            /\ NoOverlap(raster, Clipped(inShp.feats[i]))
            /\ inShp.feats[i].mask_id \notin Ids(gdf_final)

\* C14: a stage run ends with exit status 0 only if it produced at least one
\* output feature; a run in which no feature survives (nothing in the size
\* band, nothing after the overlap test, no valid geometry generated) ends
\* with another status than a successful run
C14_ExitZeroOnlyWithOutput ==
    /\ (FilterRan /\ exit_status = 0) => gdf_final # <<>>
    /\ (pc = "agregado" /\ exit_status = 0) => todas_geometrias # <<>>

\* C15: the area_ha a polygon carries is the planar area of its current
\* geometry in the CRS attached to it, also after the filter has reprojected
\* the catalog to the CRS of the reference raster
C15_AreaInCurrentCrs ==
    FilterRan =>
        \A i \in DOMAIN gdf_final :
            gdf_final[i].area_ha = GeomArea(gdf_final[i].geometry)

\* the run of the stage that ended last
LatestRun == IF pc = "filtered" THEN 1 ELSE 2

PackedByLatestRun == zipShp # NONE /\ zipShp.run = LatestRun

\* C19: when the latest run of the stage ended with no survivor its packaging
\* is skipped, also when the side-files of an earlier run are still at the
\* output path: an archive on disk holds the features of the latest run
C19_ArchiveIsOfLatestRun ==
    FilterRan =>
        /\ gdf_final = <<>> => ~PackedByLatestRun
        /\ PackedByLatestRun => zipShp.shp.feats = gdf_final

-----------------------------------------------------------------------------
(* 05_analise_cobertura.py: recall and precision against the reference *)

IsGeographic(crs) == crs = "wgs84"

\* src.res: 100 m pixels; in degrees for a geographic raster
\* (100 m / 111320 m per degree)
metros_por_grau == 111320
Res(r) ==
    IF IsGeographic(r.crs) THEN Frac(100, metros_por_grau) ELSE Frac(100, 1)

\* np.cos(np.radians(lat_centro)) of the modelled geographic rasters,
\* centred on latitude 60
fator_correcao == Frac(1, 2)

\* get_pixel_area_m2(src)
GetPixelAreaM2(r) ==
    IF IsGeographic(r.crs)
    THEN FracAbs(FracMul(
            FracMul(FracMul(Res(r), FracOfInt(metros_por_grau)), fator_correcao),
            FracMul(Res(r), FracOfInt(metros_por_grau))))
    ELSE FracAbs(FracMul(Res(r), Res(r)))

\* calcular_area_agricola_total(aoi_shp_path, mapbiomas_raster_path)
CalcularAreaAgricolaTotal(a, r) ==
    LET g == ToCrs(a.geometry, a.crs, r.crs)
    IN  IF NoOverlap(r, g)
        THEN Frac(0, 1)                               \* except ValueError
        ELSE LET agri_pixel_count ==
                    CountIsin(OutImage(r, g), CLASSES_MAPBIOMAS_AGRICULTURA)
             IN  FracDiv(FracMul(FracOfInt(agri_pixel_count), GetPixelAreaM2(r)),
                         FracOfInt(10000))

\* rasterize(geometries, out_shape, transform, fill=0).astype(bool)
Rasterize(feats, crs, r) ==
    {p \in RasterCells(r) :
        \E i \in DOMAIN feats : p \in ToCrs(feats[i].geometry, crs, r.crs)}

\* np.isin(mapbiomas_array, CLASSES_MAPBIOMAS_AGRICULTURA)
MascaraReferenciaAgri(r) ==
    {p \in RasterCells(r) : r.px[p] \in CLASSES_MAPBIOMAS_AGRICULTURA}

\* calcular_metricas_segmentacao(filtered_shp_path, raster, area_total_agricola_ha)
CalcularMetricasSegmentacao(shp, r, total_ha) ==
    LET mascara_segmentacao == Rasterize(shp.feats, shp.crs, r)
        interseccao == mascara_segmentacao \cap MascaraReferenciaAgri(r)
        pixel_area_ha == FracDiv(GetPixelAreaM2(r), FracOfInt(10000))
        correta_ha == FracMul(FracOfInt(Cardinality(interseccao)), pixel_area_ha)
        segmentada_ha ==
            FracMul(FracOfInt(Cardinality(mascara_segmentacao)), pixel_area_ha)
    IN  [recall |->
            IF total_ha[1] > 0
            THEN FracMul(FracDiv(correta_ha, total_ha), FracOfInt(100))
            ELSE Frac(0, 1),
         precision |->
            IF segmentada_ha[1] > 0
            THEN FracMul(FracDiv(correta_ha, segmentada_ha), FracOfInt(100))
            ELSE Frac(0, 1)]

\* FILTERED_SHP: absent, without features, or with one polygon
EvalCatalogs(w, h) ==
    {NONE} \cup
    {[crs |-> c, feats |-> <<>>] : c \in CRS} \cup
    {[crs |-> c, feats |-> <<Feature(1, ToCrs(g, "utm", c))>>] :
        c \in CRS, g \in Shapes(w, h, MaxCells)}

\* AOI_SHP is a GeoJSON file: its CRS is WGS 84
Aois(w, h) ==
    {[crs |-> "wgs84", geometry |-> ToCrs(g, "utm", "wgs84")] :
        g \in Shapes(w, h, MaxCells)}

\* class codes of the rasters evaluated: one outside (3) and one inside (18)
\* the agricultural classes
EvalCodes == {3, 18}

InitEval ==
    /\ pc = "main"
    /\ raster \in Rasters(RasterW, RasterH, EvalCodes)
    /\ aoi \in Aois(RasterW + 1, RasterH)
    /\ inShp \in EvalCatalogs(RasterW + 1, RasterH)
    /\ area_total_ha = NONE /\ metricas = NONE
    /\ stdout = <<>> /\ exit_status = NONE /\ stats_list = NONE
    /\ outShp = NONE /\ crit = NONE /\ ioFail = {}
    /\ gdf_final = NONE /\ prev = NONE /\ zipShp = NONE
    /\ geometry = NONE /\ ioError = FALSE /\ cobertura = NONE
    /\ AggUnused

\* main, lines 115-120
MainAreaTotal ==
    /\ pc = "main"
    /\ area_total_ha' = CalcularAreaAgricolaTotal(aoi, raster)
    /\ IF area_total_ha'[1] = 0
       THEN /\ stdout' = Append(stdout, "ERRO CRITICO")
            /\ exit_status' = 0                        \* return
            /\ pc' = "exited"
       ELSE /\ pc' = "metricas"
            /\ UNCHANGED <<stdout, exit_status>>
    /\ UNCHANGED <<raster, aoi, metricas, stats_list, covVars, filtVars, aggVars>>

\* main, lines 122-140. rasterize() given no geometry raises ValueError in
\* some rasterio releases and returns the filled array in others.
MainMetricas ==
    /\ pc = "metricas"
    /\ \/ /\ inShp = NONE                              \* gpd.read_file raises
          /\ exit_status' = 1
          /\ UNCHANGED <<metricas, stdout>>
       \/ /\ inShp # NONE
          /\ inShp.feats = <<>>                         \* rasterize raises
          /\ exit_status' = 1
          /\ UNCHANGED <<metricas, stdout>>
       \/ /\ inShp # NONE
          /\ metricas' = CalcularMetricasSegmentacao(inShp, raster, area_total_ha)
          /\ stdout' = Append(stdout, "RELATORIO")
          /\ exit_status' = 0
    /\ pc' = "exited"
    /\ UNCHANGED <<raster, aoi, area_total_ha, stats_list, covVars, filtVars, aggVars>>

NextEval == MainAreaTotal \/ MainMetricas

SpecEval == InitEval /\ [][NextEval]_vars

-----------------------------------------------------------------------------
(* Claims on the overlay evaluation *)

\* C3: recall and precision are always percentages in [0, 100], also when the
\* catalog covers reference-class pixels of the raster outside the AOI
C3_MetricsArePercentages ==
    metricas # NONE =>
        /\ IsPercentage(metricas.recall)
        /\ IsPercentage(metricas.precision)
        /\ Rasterize(inShp.feats, inShp.crs, raster) = {} =>
                metricas.precision[1] = 0

NoReferenceArea == area_total_ha # NONE /\ area_total_ha[1] = 0
EmptyCatalog == inShp = NONE \/ inShp.feats = <<>>
Succeeded == exit_status = 0 /\ metricas # NONE

\* C4: no reference-class area in the AOI ends the stage in a fatal state the
\* caller can tell from success; an empty catalog with a positive reference
\* area completes without a fatal error and reports precision = recall = 0
C4_EmptyCasesDistinct ==
    pc = "exited" =>
        /\ NoReferenceArea => exit_status # 0
        /\ (~NoReferenceArea /\ EmptyCatalog) =>
                /\ Succeeded
                /\ metricas.recall[1] = 0
                /\ metricas.precision[1] = 0

-----------------------------------------------------------------------------
(* 02_agregar_npz_em_shp.py: mask archives -> polygon catalog *)

AREA_MIN == 100

\* a binary mask: its shape and its positive pixels
Masks(w, h) == [w : {w}, h : {h}, on : SUBSET Cells(w, h)]

\* Path(npz_path).stem is kept as its '_'-separated parts: "X_masks" is
\* <<"X", "masks">>. patch_name drops a trailing "_masks".
PatchName(npz_name) ==
    IF Len(npz_name) >= 2 /\ npz_name[Len(npz_name)] = "masks"
    THEN SubSeq(npz_name, 1, Len(npz_name) - 1)
    ELSE npz_name

\* str() of an index
Str(n) == <<"0", "1", "2", "3", "4", "5", "6", "7", "8", "9">>[n + 1]

\* f"{patch_name}_{mask_id}_{i}", as its '_'-separated parts
MaskIdOf(patch_name, mask_id, i) == patch_name \o <<Str(mask_id), Str(i)>>

\* the connected regions of positive pixels (rasterio's default connectivity 4)
RECURSIVE ComponentsOf(_)
ComponentsOf(S) ==
    IF S = {} THEN {}
    ELSE LET c == Reach({CHOOSE p \in S : TRUE}, S)
         IN  {c} \cup ComponentsOf(S \ c)

FirstKey(c, w) == MinOf({(p[2] - 1) * w + p[1] : p \in c})

RECURSIVE InScanOrder(_, _)
InScanOrder(cs, w) ==
    IF cs = {} THEN <<>>
    ELSE LET c == CHOOSE c \in cs : \A d \in cs : FirstKey(c, w) <= FirstKey(d, w)
         IN  <<c>> \o InScanOrder(cs \ {c}, w)

Touching(p, q, diag) ==
    \/ Adjacent(p, q)
    \/ diag /\ p # q /\ p[1] - q[1] \in {-1, 1} /\ p[2] - q[2] \in {-1, 1}

RECURSIVE ReachBackground(_, _, _)
ReachBackground(seen, S, diag) ==
    LET more == {q \in S \ seen : \E p \in seen : Touching(p, q, diag)}
    IN  IF more = {} THEN seen ELSE ReachBackground(seen \cup more, S, diag)

\* the pixels inside the exterior ring of region c: c and what it encloses.
\* A hole that meets the outside at a pixel corner is traced either as a ring
\* of its own (diag = FALSE) or as part of a self-touching exterior ring
\* (diag = TRUE), depending on the tracer.
InsideExterior(c, w, h, diag) ==
    LET frame == (0..(w + 1)) \X (0..(h + 1))
        outside == ReachBackground({<<0, 0>>}, frame \ c, diag)
    IN  Cells(w, h) \ outside

\* list(shapes(mask_binary, mask=mask_binary, transform=transform)): one
\* (polygon, value) per region, coordinates = <<exterior ring, hole rings>>,
\* each ring given by the pixels it encloses
ShapesOf(m, diag) ==
    LET cs == InScanOrder(ComponentsOf(m.on), m.w)
    IN  [i \in DOMAIN cs |->
            LET inside == InsideExterior(cs[i], m.w, m.h, diag)
            IN  [coordinates |-> <<inside, inside \ cs[i]>>, value |-> 1]]

\* mutant: the area grows with the pixel side, not with its square
AreaOfLinear(cells, res) == FracMul(FracOfInt(Cardinality(cells)), res)

\* geom.area of a footprint traced on a tile with square pixels of side res
AreaOf(cells, res) ==
    FracMul(FracOfInt(Cardinality(cells)), FracMul(res, res))

\* lines 69-88 for one mask: Polygon(coordinates[0]), buffer(0) when invalid
\* (a self-touching ring encloses the same pixels after the repair), kept when
\* geom.area >= AREA_MIN. raises: the rings <<mask_id, i>> whose geometry
\* construction raises (except Exception: continue)
GeometriasOfMask(patch_name, tile, mask_id, m, diag, raises) ==
    LET polygons == ShapesOf(m, diag)
        all == [i \in DOMAIN polygons |->
                  LET geom == polygons[i].coordinates[1]
                  IN  [geometry |-> geom,
                       tile_crs |-> tile.crs,
                       res |-> tile.res,
                       mask_id |-> MaskIdOf(patch_name, mask_id, i - 1),
                       patch_orig |-> patch_name,
                       area_ha |-> FracDiv(AreaOf(geom, tile.res),
                                           FracOfInt(10000))]]
        raised == {MaskIdOf(patch_name, r[1], r[2]) : r \in raises}
    IN  SelectSeq(all, LAMBDA g :
            /\ g.mask_id \notin raised
            /\ FracLe(FracOfInt(AREA_MIN), AreaOf(g.geometry, g.res)))

\* lines 63-88 for the masks k.. of one archive
RECURSIVE GeometriasOfMasks(_, _, _, _, _, _)
GeometriasOfMasks(patch_name, tile, masks, k, diag, raises) ==
    IF k > Len(masks) THEN <<>>
    ELSE GeometriasOfMask(patch_name, tile, k - 1, masks[k], diag, raises)
            \o GeometriasOfMasks(patch_name, tile, masks, k + 1, diag, raises)

\* the rings <<mask_id, i>> traced from the masks of an archive
RingIds(masks) ==
    UNION {{<<k - 1, i - 1>> : i \in 1..Cardinality(ComponentsOf(masks[k].on))} :
            k \in DOMAIN masks}

\* the geometry construction raises for no ring, or for one ring of the archive
RingFailures(masks) == {{}} \cup {{r} : r \in RingIds(masks)}

\* mutant: an archive that cannot be processed ends the loop
ContinueAborting(pend, f, outcome) ==
    IF outcome = "ok" THEN pend \ {f} ELSE {}

\* the loop over npz_files goes on with the next archive, whatever happened to
\* this one (continue, lines 49 and 92)
Continue(pend, f, outcome) == pend \ {f}

TileOf(patch_name) == {t \in patchesDir : t.name = patch_name}

\* one iteration of the loop over npz_files (glob gives no order)
ProcessarNpz ==
    /\ pc = "agregar"
    /\ \E f \in pending :
        LET patch_name == PatchName(f.stem)
        IN  \/ /\ TileOf(patch_name) = {}              \* Patch nao encontrado
               /\ pending' = Continue(pending, f, "no_patch")
               /\ log' = Append(log, [stem |-> f.stem, outcome |-> "no_patch",
                                      crs |-> NoCrs, raised |-> {},
                                      diag |-> FALSE])
               /\ UNCHANGED <<todas_geometrias, crs_final>>
            \/ /\ TileOf(patch_name) # {}
               /\ ~f.loads                             \* np.load raises
               /\ pending' = Continue(pending, f, "load_error")
               /\ log' = Append(log, [stem |-> f.stem, outcome |-> "load_error",
                     crs |-> (CHOOSE t \in TileOf(patch_name) : TRUE).crs,
                     raised |-> {}, diag |-> FALSE])
               /\ crs_final' = IF crs_final = NoCrs
                               THEN (CHOOSE t \in TileOf(patch_name) : TRUE).crs
                               ELSE crs_final
               /\ UNCHANGED todas_geometrias
            \/ /\ TileOf(patch_name) # {}
               /\ f.loads
               /\ pending' = Continue(pending, f, "ok")
               /\ LET tile == CHOOSE t \in TileOf(patch_name) : TRUE
                  IN  /\ crs_final' = IF crs_final = NoCrs THEN tile.crs
                                      ELSE crs_final
                      /\ \E diag \in BOOLEAN, raises \in RingFailures(f.masks) :
                           /\ log' = Append(log,
                                 [stem |-> f.stem, outcome |-> "ok",
                                  crs |-> tile.crs, raised |-> raises,
                                  diag |-> diag])
                           /\ todas_geometrias' = todas_geometrias \o
                                 GeometriasOfMasks(patch_name, tile, f.masks, 1,
                                                   diag, raises)
    /\ UNCHANGED <<pc, outShp, zipShp, npzDir, patchesDir>>
    /\ UNCHANGED <<raster, covVars, inShp, crit, ioFail, gdf_final, prev, evalVars>>

\* lines 94-111: the catalog is written when a geometry was collected;
\* then zip_files(), and the process ends with status 0
SalvarShp ==
    /\ pc = "agregar"
    /\ pending = {}
    /\ outShp' = IF todas_geometrias = <<>> THEN outShp
                 ELSE [crs |-> crs_final, feats |-> todas_geometrias]
    /\ zipShp' = ZipFiles(outShp', zipShp, 1)
    /\ exit_status' = 0
    /\ pc' = "agregado"
    /\ UNCHANGED <<aggVars>>
    /\ UNCHANGED <<raster, covVars, inShp, crit, ioFail, gdf_final, prev, evalOthers>>

NextAgg == ProcessarNpz \/ SalvarShp

AggOthersUnused ==
    /\ raster = NONE /\ inShp = NONE /\ crit = NONE /\ ioFail = {}
    /\ gdf_final = NONE /\ prev = NONE /\ zipShp = NONE
    /\ geometry = NONE /\ ioError = FALSE /\ cobertura = NONE
    /\ aoi = NONE /\ area_total_ha = NONE /\ metricas = NONE
    /\ stdout = <<>> /\ exit_status = NONE /\ stats_list = NONE

\* SpecExtract: one archive with one mask on a TileW x TileH tile
InitExtract ==
    /\ pc = "agregar"
    /\ \E m \in Masks(TileW, TileH) :
         npzDir = {[stem |-> <<"X">>, loads |-> TRUE, masks |-> <<m>>]}
    /\ \E res \in {10, 20} :
         patchesDir = {[name |-> <<"X">>, crs |-> "utm", res |-> FracOfInt(res)]}
    /\ pending = npzDir
    /\ todas_geometrias = <<>> /\ crs_final = NoCrs /\ outShp = NONE
    /\ log = <<>>
    /\ AggOthersUnused

SpecExtract == InitExtract /\ [][NextAgg]_vars

\* the masks of a w x h tile that hold one solid square block, of a side
\* within two pixels of the tile's
SolidBlocks(w, h) ==
    {[w |-> w, h |-> h,
      on |-> {p \in Cells(w, h) :
                /\ t[2] <= p[1] /\ p[1] < t[2] + t[1]
                /\ t[3] <= p[2] /\ p[2] < t[3] + t[1]}] :
        t \in {u \in ((w - 2)..w) \X (1..w) \X (1..h) :
                  u[2] + u[1] - 1 <= w /\ u[3] + u[1] - 1 <= h}}

\* SpecBlock: one archive with one mask holding one solid block
InitBlock ==
    /\ pc = "agregar"
    /\ \E m \in SolidBlocks(BlockTile, BlockTile) :
         npzDir = {[stem |-> <<"X">>, loads |-> TRUE, masks |-> <<m>>]}
    /\ \E res \in {5, 10, 20} :
         patchesDir = {[name |-> <<"X">>, crs |-> "utm", res |-> FracOfInt(res)]}
    /\ pending = npzDir
    /\ todas_geometrias = <<>> /\ crs_final = NoCrs /\ outShp = NONE
    /\ log = <<>>
    /\ AggOthersUnused

SpecBlock == InitBlock /\ [][NextAgg]_vars

\* SpecAgg: a directory of archives over one-pixel tiles
AggStems == {<<"X">>, <<"X", "masks">>, <<"Y">>}

\* an archive that cannot be read, or one of 1..MaxMasks masks
ArchiveContents(w, h) ==
    {[loads |-> FALSE, masks |-> <<>>]} \cup
    {[loads |-> TRUE, masks |-> ms] :
        ms \in UNION {[1..n -> Masks(w, h)] : n \in 1..MaxMasks}}

NpzDirs(w, h) ==
    UNION {{{[stem |-> st, loads |-> ch[st].loads, masks |-> ch[st].masks] :
                st \in S} : ch \in [S -> ArchiveContents(w, h)]} :
            S \in SUBSET AggStems}

\* the tiles a patch may be: 10 m or 5 m pixels in a projected CRS, or
\* 0.01 degree pixels in a geographic CRS
TileKinds ==
    {[crs |-> "utm", res |-> Frac(10, 1)], [crs |-> "utm", res |-> Frac(5, 1)],
     [crs |-> "wgs84", res |-> Frac(1, 100)]}

PatchesDirs ==
    UNION {{{[name |-> n, crs |-> ch[n].crs, res |-> ch[n].res] : n \in S} :
                ch \in [S -> TileKinds]} :
            S \in SUBSET {<<"X">>, <<"Y">>}}

InitAgg ==
    /\ pc = "agregar"
    /\ npzDir \in NpzDirs(1, 1)
    /\ patchesDir \in PatchesDirs
    /\ pending = npzDir
    /\ todas_geometrias = <<>> /\ crs_final = NoCrs /\ outShp = NONE
    /\ log = <<>>
    /\ AggOthersUnused

SpecAgg == InitAgg /\ [][NextAgg]_vars

-----------------------------------------------------------------------------
(* Claims on the aggregation *)

CatalogFeats == IF outShp = NONE THEN <<>> ELSE outShp.feats

\* the pixels of the mask's grid covered by the catalog's polygons
RasterizedBack ==
    UNION {CatalogFeats[i].geometry : i \in DOMAIN CatalogFeats}

TheMask == (CHOOSE f \in npzDir : TRUE).masks[1]

\* C5: rasterizing the polygons put into the catalog back onto the mask's grid
\* gives exactly the mask's positive pixels (holes and several blobs included)
C5_RoundTrip ==
    (pc = "agregado" /\ \A i \in DOMAIN log : log[i].raised = {}) =>
        RasterizedBack = TheMask.on

\* C6: no two features of the catalog have the same id, also when two
\* archives ('X.npz', 'X_masks.npz') resolve to the same tile name
C6_IdsUnique ==
    pc = "agregado" =>
        \A i, j \in DOMAIN CatalogFeats :
            i # j => CatalogFeats[i].mask_id # CatalogFeats[j].mask_id

Oks == SelectSeq(log, LAMBDA e : e.outcome = "ok")

\* C7: the catalog's CRS is the CRS of the first tile successfully processed
\* and every geometry of the catalog is expressed in the catalog's CRS
C7_CanonicalCrs ==
    (pc = "agregado" /\ outShp # NONE) =>
        /\ outShp.crs = Oks[1].crs
        /\ \A i \in DOMAIN outShp.feats : outShp.feats[i].tile_crs = outShp.crs

ArchiveOf(stem) == CHOOSE f \in npzDir : f.stem = stem

\* the region of positive pixels that ring <<mask_id, i>> of an archive bounds
RegionOf(f, r) ==
    LET m == f.masks[r[1] + 1]
    IN  InScanOrder(ComponentsOf(m.on), m.w)[r[2] + 1]

\* the rings of a processed archive that are valid polygons: their geometry
\* was built and it has the minimum area
ValidRings(e) ==
    LET f == ArchiveOf(e.stem)
        tile == CHOOSE t \in TileOf(PatchName(e.stem)) : TRUE
    IN  {r \in RingIds(f.masks) \ e.raised :
            LET m == f.masks[r[1] + 1]
            IN  FracLe(FracOfInt(AREA_MIN),
                       AreaOf(InsideExterior(RegionOf(f, r), m.w, m.h, FALSE),
                              tile.res))}

\* the valid polygons of the first k archives visited
RECURSIVE ValidCount(_)
ValidCount(k) ==
    IF k = 0 THEN 0
    ELSE ValidCount(k - 1) +
            (IF log[k].outcome = "ok" THEN Cardinality(ValidRings(log[k])) ELSE 0)

Processable(f) == TileOf(PatchName(f.stem)) # {} /\ f.loads

\* C12: a tile without raster file, an archive that cannot be read or a ring
\* whose geometry construction raises is skipped alone: the loop still visits
\* every archive of the directory, and every valid polygon of every other
\* archive is in the catalog
C12_FailuresAreLocal ==
    pc = "agregado" =>
        /\ {log[i].stem : i \in DOMAIN log} = {f.stem : f \in npzDir}
        /\ \A i \in DOMAIN log :
              /\ log[i].outcome = "ok" <=> Processable(ArchiveOf(log[i].stem))
              /\ log[i].outcome = "ok" =>
                    \A r \in ValidRings(log[i]) :
                        \E j \in DOMAIN CatalogFeats :
                            /\ CatalogFeats[j].patch_orig = PatchName(log[i].stem)
                            /\ CatalogFeats[j].mask_id =
                                  MaskIdOf(PatchName(log[i].stem), r[1], r[2])
                            /\ RegionOf(ArchiveOf(log[i].stem), r)
                                  \subseteq CatalogFeats[j].geometry
        /\ Len(CatalogFeats) = ValidCount(Len(log))

\* one archive had no tile, one could not be read, one had a ring that raised,
\* and the other ring of that archive is in the catalog
C12_Witness ==
    /\ pc = "agregado"
    /\ \E i, j, k \in DOMAIN log :
          /\ log[i].outcome = "no_patch"
          /\ log[j].outcome = "load_error"
          /\ log[k].outcome = "ok"
          /\ log[k].raised # {}
          /\ ValidRings(log[k]) # {}
          /\ i < k /\ j < k
    /\ Len(CatalogFeats) = 1

\* the polygons traced from the first k archives visited
RECURSIVE ExtractedCount(_)
ExtractedCount(k) ==
    IF k = 0 THEN 0
    ELSE ExtractedCount(k - 1) +
            (IF log[k].outcome = "ok"
             THEN Cardinality(RingIds(ArchiveOf(log[k].stem).masks)) ELSE 0)

\* C13: every polygon created by the extraction is in the catalog or counted
\* in a drop counter, extracted = final + drops; none is discarded without a
\* record by the per-ring exception handler or by the minimum-area test.
\* The aggregation keeps no drop counter: the one count it has and reports is
\* len(todas_geometrias) (line 98), so the drops it records sum to 0.
C13_EveryPolygonAccounted ==
    pc = "agregado" => ExtractedCount(Len(log)) = Len(todas_geometrias) + 0

\* the rings of a processed archive that were traced invalid: the exterior
\* ring touches itself where a pocket of background meets the outside at a
\* pixel corner
InvalidRings(e) ==
    LET f == ArchiveOf(e.stem)
    IN  IF ~e.diag THEN {}
        ELSE {r \in RingIds(f.masks) :
                LET m == f.masks[r[1] + 1]
                IN  InsideExterior(RegionOf(f, r), m.w, m.h, TRUE)
                        # InsideExterior(RegionOf(f, r), m.w, m.h, FALSE)}

\* |a - raw| <= raw / 1000
WithinTolerance(a, raw) ==
    FracLe(FracAbs(FracSub(a, raw)), FracDiv(raw, FracOfInt(1000)))

\* C17: every traced ring that is invalid is either repaired and inserted
\* with an area within 0.1% of the raw traced area, or dropped with the
\* repair-failure counter incremented. The aggregation has no such counter,
\* so that every invalid ring has to be in the catalog, within the tolerance.
C17_RepairWithinToleranceOrCounted ==
    pc = "agregado" =>
        \A k \in DOMAIN log :
            log[k].outcome = "ok" =>
                \A r \in InvalidRings(log[k]) :
                    LET f == ArchiveOf(log[k].stem)
                        m == f.masks[r[1] + 1]
                        tile == CHOOSE t \in TileOf(PatchName(f.stem)) : TRUE
                        raw == AreaOf(InsideExterior(RegionOf(f, r),
                                                     m.w, m.h, TRUE), tile.res)
                    IN  \E j \in DOMAIN CatalogFeats :
                            /\ CatalogFeats[j].mask_id =
                                  MaskIdOf(PatchName(f.stem), r[1], r[2])
                            /\ WithinTolerance(
                                  AreaOf(CatalogFeats[j].geometry, tile.res), raw)

\* the mask is one solid block of 10 x 10 pixels on a tile with 10 m pixels,
\* and the stage has run without an exception
Block10Done ==
    /\ pc = "agregado"
    /\ \A k \in DOMAIN log : log[k].raised = {}
    /\ Cardinality(TheMask.on) = 10 * 10
    /\ MaxOf({p[1] : p \in TheMask.on}) - MinOf({p[1] : p \in TheMask.on}) = 9
    /\ MaxOf({p[2] : p \in TheMask.on}) - MinOf({p[2] : p \in TheMask.on}) = 9
    /\ \A t \in patchesDir : t.res = FracOfInt(10)

\* C18, as stated: a solid 10 x 10 block at 10 m yields exactly one polygon
\* with area = 1000 m2 and area_ha = 0.1
C18_BlockAreaAsStated ==
    Block10Done =>
        /\ Len(CatalogFeats) = 1
        /\ FracEq(AreaOf(CatalogFeats[1].geometry, CatalogFeats[1].res),
                  FracOfInt(1000))
        /\ FracEq(CatalogFeats[1].area_ha, Frac(1, 10))

\* C18, amended: a solid 10 x 10 block at 10 m yields exactly one polygon,
\* covering the block, with area = 10000 m2 and area_ha = 1
C18_BlockArea ==
    Block10Done =>
        /\ Len(CatalogFeats) = 1
        /\ CatalogFeats[1].geometry = TheMask.on
        /\ FracEq(AreaOf(CatalogFeats[1].geometry, CatalogFeats[1].res),
                  FracOfInt(10000))
        /\ FracEq(CatalogFeats[1].area_ha, Frac(1, 1))

\* the 10 x 10 block was traced and its polygon is in the catalog
C18_Witness ==
    /\ Block10Done
    /\ Len(CatalogFeats) = 1
    /\ CatalogFeats[1].mask_id = <<"X", "0", "0">>

-----------------------------------------------------------------------------
(* 04_analise_heterogeniedade.py: NDVI statistics of each polygon *)

\* a pixel of the clipped window: its red and near-infrared reflectance,
\* nan when a band holds NaN, masked when outside the polygon or nodata
Pixel(red, nir) == [red |-> red, nir |-> nir, nan |-> FALSE, masked |-> FALSE]
PixelNan == [red |-> 0, nir |-> 0, nan |-> TRUE, masked |-> FALSE]
PixelMasked == [red |-> 0, nir |-> 0, nan |-> FALSE, masked |-> TRUE]
\* a negative reflectance: the index leaves [-1, 1]
PixelOutOfRange == Pixel(-1, 2)

\* reflectances whose index is inside [-1, 1]: NDVI 1/3 and NDVI 0
PlainPixels == {Pixel(100, 200), Pixel(100, 100)}

\* the + 1e-6 of line 28, as a number of millionths
PerEpsilon == 1000000

\* (nir - red) / (nir + red + 1e-6)
Ndvi(px) ==
    Reduced((px.nir - px.red) * PerEpsilon, (px.nir + px.red) * PerEpsilon + 1)

\* ~ndvi.mask & (ndvi >= -1) & (ndvi <= 1); masked_invalid masks NaN
ValidPixel(px) ==
    /\ ~px.masked /\ ~px.nan
    /\ FracLe(Frac(-1, 1), Ndvi(px)) /\ FracLe(Ndvi(px), Frac(1, 1))

\* out_image of mask(src, [geometry], crop=True, filled=False): how many
\* pixels of each kind the window holds. The valid pixels of one window have
\* the same reflectance.
Windows ==
    UNION {{w \in [{v, PixelOutOfRange, PixelNan, PixelMasked} -> 0..MaxValid] :
                /\ w[v] \in {0} \cup ((MaxValid - 2)..MaxValid)
                /\ w[PixelOutOfRange] <= 1
                /\ w[PixelNan] <= 1
                /\ w[PixelMasked] <= 1} : v \in PlainPixels}

RECURSIVE CountOf(_, _)
CountOf(w, kinds) ==
    IF kinds = {} THEN 0
    ELSE LET k == CHOOSE k \in kinds : TRUE
         IN  w[k] + CountOf(w, kinds \ {k})

\* pixels_validos, in ascending order of the index
NdviLe(a, b) == a = b \/ FracLe(a, b)

RECURSIVE SortedPixels(_, _)
SortedPixels(w, kinds) ==
    IF kinds = {} THEN <<>>
    ELSE LET k == CHOOSE k \in kinds :
                    \A j \in kinds : NdviLe(Ndvi(k), Ndvi(j))
         IN  [i \in 1..w[k] |-> Ndvi(k)] \o SortedPixels(w, kinds \ {k})

PixelsValidos(w) == SortedPixels(w, {k \in DOMAIN w : ValidPixel(k) /\ w[k] > 0})

\* n times x
FracTimes(n, x) == FracMul(FracOfInt(n), x)

\* the sum of a sequence, equal neighbours taken together
RECURSIVE SumOf(_, _)
SumOf(xs, k) ==
    IF k > Len(xs) THEN Frac(0, 1)
    ELSE LET run == CHOOSE n \in 1..(Len(xs) - k + 1) :
                        /\ \A j \in k..(k + n - 1) : xs[j] = xs[k]
                        /\ k + n <= Len(xs) => xs[k + n] # xs[k]
         IN  FracAdd(FracTimes(run, xs[k]), SumOf(xs, k + run))

\* np.mean
Mean(xs) == FracDiv(SumOf(xs, 1), FracOfInt(Len(xs)))

\* the square root of a fraction that is a square
Sqrt(x) ==
    <<CHOOSE r \in 0..x[1] : r * r = x[1], CHOOSE r \in 1..x[2] : r * r = x[2]>>

\* np.std: the root of the mean squared deviation
Std(xs) ==
    LET m == Mean(xs)
        sq == [i \in DOMAIN xs |->
                  FracMul(FracSub(xs[i], m), FracSub(xs[i], m))]
    IN  Sqrt(Mean(sq))

\* np.percentile(xs, q): linear interpolation between the two nearest ranks
Percentile(xs, q) ==
    LET pos == (Len(xs) - 1) * q
        lo == pos \div 100
        hi == IF pos % 100 = 0 THEN lo ELSE lo + 1
    IN  FracAdd(xs[lo + 1],
                FracMul(Frac(pos % 100, 100), FracSub(xs[hi + 1], xs[lo + 1])))

\* mutant: statistics computed from any number of valid pixels
CalcularNdviStatsNoMinimum(w, fails) ==
    IF fails THEN NONE
    ELSE IF CountOf(w, DOMAIN w) = 0 THEN NONE
    ELSE LET pixels_validos == PixelsValidos(w)
         IN  IF Len(pixels_validos) < 1 THEN NONE
             ELSE [ndvi_mean |-> Mean(pixels_validos),
                   ndvi_std |-> Std(pixels_validos),
                   ndvi_cv |->
                      IF Mean(pixels_validos)[1] # 0
                      THEN FracMul(FracDiv(Std(pixels_validos),
                                           Mean(pixels_validos)), FracOfInt(100))
                      ELSE Frac(0, 1),
                   ndvi_p10 |-> Percentile(pixels_validos, 10),
                   ndvi_p90 |-> Percentile(pixels_validos, 90)]

\* fewer valid pixels than this and the polygon gets no statistics (line 34)
MinPixels == 10

\* calcular_ndvi_stats(geometry, raster_path), w the window clipped for the
\* geometry; fails: rasterio raises while clipping (except Exception: None)
CalcularNdviStats(w, fails) ==
    IF fails THEN NONE
    ELSE IF CountOf(w, DOMAIN w) = 0 THEN NONE       \* out_image.size == 0
    ELSE LET pixels_validos == PixelsValidos(w)
         IN  IF Len(pixels_validos) < MinPixels THEN NONE
             ELSE [ndvi_mean |-> Mean(pixels_validos),
                   ndvi_std |-> Std(pixels_validos),
                   ndvi_cv |->
                      IF Mean(pixels_validos)[1] # 0
                      THEN FracMul(FracDiv(Std(pixels_validos),
                                           Mean(pixels_validos)), FracOfInt(100))
                      ELSE Frac(0, 1),
                   ndvi_p10 |-> Percentile(pixels_validos, 10),
                   ndvi_p90 |-> Percentile(pixels_validos, 90)]

\* INPUT_SHP of the stage: NPoly polygons, each with the window the image
\* raster gives for its geometry
NdviCatalogs ==
    {[crs |-> "utm",
      feats |-> [i \in 1..NPoly |->
                    [mask_id |-> i, window |-> ws[i], fails |-> fs[i]]]] :
        ws \in [1..NPoly -> Windows], fs \in [1..NPoly -> BOOLEAN]}

\* gdf.join(stats_df)
Joined(feats, stats) ==
    [i \in DOMAIN feats |-> [mask_id |-> feats[i].mask_id, stats |-> stats[i]]]

\* gdf.dropna(subset=['ndvi_mean'])
Dropna(rows) == SelectSeq(rows, LAMBDA f : f.stats # NONE)

InitNdvi ==
    /\ pc = "ndvi"
    /\ inShp \in NdviCatalogs \cup {NONE}
    /\ stats_list = NONE /\ outShp = NONE /\ zipShp = NONE
    /\ exit_status = NONE /\ stdout = <<>>
    /\ raster = NONE /\ crit = NONE /\ ioFail = {}
    /\ gdf_final = NONE /\ prev = NONE
    /\ geometry = NONE /\ ioError = FALSE /\ cobertura = NONE
    /\ aoi = NONE /\ area_total_ha = NONE /\ metricas = NONE
    /\ AggUnused

\* main of 04_analise_heterogeniedade.py. GeoDataFrame(stats_list) is given a
\* list that holds None where a polygon has no statistics: the frame is built
\* with an empty row for it, or the constructor raises, depending on the
\* pandas release.
MainNdvi ==
    /\ pc = "ndvi"
    /\ \/ /\ inShp = NONE                       \* input not found: return
          /\ stdout' = Append(stdout, "nao encontrado")
          /\ exit_status' = 0
          /\ UNCHANGED <<stats_list, outShp, zipShp>>
       \/ /\ inShp # NONE
          /\ stats_list' = [i \in DOMAIN inShp.feats |->
                CalcularNdviStats(inShp.feats[i].window, inShp.feats[i].fails)]
          /\ \E i \in DOMAIN inShp.feats : stats_list'[i] = NONE
          /\ exit_status' = 1                    \* the constructor raises
          /\ UNCHANGED <<stdout, outShp, zipShp>>
       \/ /\ inShp # NONE
          /\ stats_list' = [i \in DOMAIN inShp.feats |->
                CalcularNdviStats(inShp.feats[i].window, inShp.feats[i].fails)]
          /\ LET gdf == Joined(inShp.feats, stats_list')
                 valores_validos == Len(Dropna(gdf))
             IN  IF valores_validos = 0
                 THEN /\ stdout' = Append(stdout, "Nenhum talhao")
                      /\ UNCHANGED <<outShp, zipShp>>
                 ELSE /\ outShp' = [crs |-> inShp.crs, feats |-> Dropna(gdf)]
                      /\ zipShp' = ZipFiles(outShp', zipShp, 1)
                      /\ stdout' = Append(stdout, "Resumo")
          /\ exit_status' = 0
    /\ pc' = "ndvi_done"
    /\ UNCHANGED <<raster, inShp, crit, ioFail, gdf_final, prev, covVars,
                   aoi, area_total_ha, metricas, aggVars>>

NextNdvi == MainNdvi

SpecNdvi == InitNdvi /\ [][NextNdvi]_vars

-----------------------------------------------------------------------------
(* Claims on the NDVI statistics *)

\* the pixels of a window that remain after discarding masked pixels,
\* non-finite index values and index values outside [-1, 1]
Remaining(w) == CountOf(w, {k \in DOMAIN w : ValidPixel(k)})

StatKeys == {"ndvi_mean", "ndvi_std", "ndvi_cv", "ndvi_p10", "ndvi_p90"}

WrittenIds == IF outShp = NONE THEN {} ELSE Ids(outShp.feats)

\* C16: a polygon with fewer than 10 remaining pixels gets no statistics
\* (None, the call returns); with 10 or more it gets the five statistics; and
\* a polygon without statistics is not in the written output, whose features
\* all carry their statistics
C16_NdviStatsPresentOrAbsent ==
    (pc = "ndvi_done" /\ stats_list # NONE) =>
        /\ \A i \in DOMAIN inShp.feats :
              LET f == inShp.feats[i]
              IN  /\ Remaining(f.window) < 10 => stats_list[i] = NONE
                  /\ (Remaining(f.window) >= 10 /\ ~f.fails) =>
                        /\ stats_list[i] # NONE
                        /\ DOMAIN stats_list[i] = StatKeys
                  /\ stats_list[i] = NONE => f.mask_id \notin WrittenIds
        /\ outShp # NONE =>
              \A j \in DOMAIN outShp.feats :
                  /\ outShp.feats[j].stats # NONE
                  /\ outShp.feats[j].stats = stats_list[outShp.feats[j].mask_id]

\* one polygon has 10 valid pixels and its five statistics; the other has 9
\* valid pixels beside a NaN pixel and an out-of-range pixel, has no
\* statistics and is not in the written output
C16_Witness ==
    /\ pc = "ndvi_done"
    /\ stats_list # NONE
    /\ \E i, j \in DOMAIN inShp.feats :
          /\ Remaining(inShp.feats[i].window) = 10
          /\ stats_list[i] # NONE
          /\ Remaining(inShp.feats[j].window) = 9
          /\ inShp.feats[j].window[PixelNan] = 1
          /\ inShp.feats[j].window[PixelOutOfRange] = 1
          /\ ~inShp.feats[j].fails
          /\ stats_list[j] = NONE
          /\ inShp.feats[j].mask_id \notin WrittenIds

=============================================================================
